---------------------------- MODULE Spec2Model ----------------------------
(***************************************************************************)
(* A model of mio-channel (src/src/channel.rs): a std::sync::mpsc channel  *)
(* whose Receiver is an event source of a mio poller.  Every Sender clone  *)
(* and the Receiver share one Arc<Mutex<Option<Waker>>> (the waker slot).  *)
(*                                                                         *)
(* Threads: one thread per sender handle, one consumer thread that owns    *)
(* the Receiver and drives the poller.  A step of the model is one atomic  *)
(* step of the code: a queue operation of mpsc, the acquisition of the     *)
(* slot's mutex, or the code run while the mutex is held.                  *)
(***************************************************************************)
EXTENDS Integers, Sequences, FiniteSets

\* ------------------------------------------------------------- bounds
MaxSends == 2       \* send/try_send calls made in one run
MaxBound == 2       \* capacities of the bounded channel: 1..MaxBound

\* ------------------------------------------------------------- domains
Handles == {1, 2}               \* sender handles: the original and a clone
Tokens  == {1, 2}               \* mio::Token values of registration calls
\* mio::Interest values passed to register / reregister
Interests == {"READABLE", "WRITABLE"}
None    == 0                    \* Option::None of the slot
NoVal   == <<0, 0>>             \* no value
\* The value of the n-th send call of the run, made through handle h
Value(h, n) == <<h, n>>

VARIABLES
    bound,      \* 0: channel() (unbounded); n >= 1: sync_channel(n)
    queue,      \* the values buffered in the mpsc queue, oldest first
    rxAlive,    \* the Receiver has not been dropped
    hstate,     \* per handle: "unborn", "alive", "dropped"
    pc,         \* per handle: "idle", "blocked", "enqueued", "locked"
    cur,        \* per handle: the value of the call in progress, or NoVal
    tsend,      \* per handle: the call in progress is try_send
    nsent,      \* number of send/try_send calls made so far
    waker,      \* the slot (Mutex<Option<Waker>>): None, or the token of
                \*   the Waker it holds
    fresh,      \* the Waker reregister has created and not yet stored, or None
    seen,       \* per handle: what `if let Some(waker) = &mut *guard` found
                \*   in the slot (None, or the token of the Waker it borrows)
    rxpc,       \* consumer thread: "idle", "reregister" (between Waker::new
                \*   and the assignment of line 69), "polling"
    ready,      \* tokens whose wake the poller has not yet reported
    received,   \* the values try_recv has returned, in order
    okSent,     \* the values whose send/try_send returned Ok
    last        \* what the last step returned to its caller (NoEv: nothing)

vars == <<bound, queue, rxAlive, hstate, pc, cur, tsend, nsent, waker, fresh,
          seen, rxpc, ready, received, okSent, last>>

\* A record of `last`: the call op of handle h (0: the consumer) with value v
\* returned res; wake says whether it triggered a Waker ("ok"), tried and got
\* an io::Error ("err") or did not ("none"), tok is the token of that Waker
\* (or the token argument of a registration call), evs the tokens a poll
\* reported.
Ev(op, h, v, res, wake, tok, evs) ==
    [op |-> op, h |-> h, v |-> v, res |-> res, wake |-> wake, tok |-> tok,
     evs |-> evs]
\* The step returned nothing to a caller and triggered no Waker.
NoEv == Ev("none", 0, NoVal, "none", "none", None, {})

\* ------------------------------------------------------------- helpers
Alive(h)   == hstate[h] = "alive"
Senders    == {h \in Handles : Alive(h)}
Bounded    == bound > 0
\* (mutant: one value more than the capacity fits)
HasSpaceOneMore == ~Bounded \/ Len(queue) <= bound
\* The buffer of sync_channel(bound) has room; channel() always has
HasSpace == ~Bounded \/ Len(queue) < bound

\* (mutant: the sender locks the slot before tx.send and keeps the lock while
\* it is suspended)
HoldsLockFromCall(h) == pc[h] \in {"blocked", "locked"}
\* (mutant: the sender releases the lock as soon as it has read the slot)
HoldsLockNever(h) == FALSE
\* Sender h holds the mutex of the slot: the guard of lines 98, 127, 142 is
\* created after tx.send / tx.try_send returned and lives to the end of the
\* `if let` statement.
HoldsLock(h) == pc[h] = "locked"

\* The mutex of the slot is held by the thread that is inside a guarded
\* block; nobody else can acquire it.
LockFree ==
    /\ \A h \in Handles : ~HoldsLock(h)
    /\ rxpc # "reregister"

\* (mutant: a clone gets a slot of its own, which nobody registers)
SlotOfOwn(h) == IF h = 1 THEN waker ELSE None
\* The content of the slot the `waker` field of handle h points to: every
\* handle holds a clone of the Arc that channel() created.
SlotOf(h) == waker

\* (mutant: the value is not in the queue when the call goes on)
EnqueueLater(q, v) == q
\* (mutant: the value goes to the front of the queue)
EnqueueFront(q, v) == <<v>> \o q
\* mpsc enqueue: the value goes to the back of the queue
Enqueue(q, v) == Append(q, v)

\* (mutant: disconnection is reported before the buffer is drained)
TryRecvDisconnectedFirst ==
    IF Senders = {} THEN "Disconnected"
    ELSE IF queue # <<>> THEN "Ok"
    ELSE "Empty"
\* mpsc::Receiver::try_recv as a function of the channel state
TryRecvResult ==
    IF queue # <<>> THEN "Ok"
    ELSE IF Senders = {} THEN "Disconnected"
    ELSE "Empty"

\* Waker::new(registry, token) may fail with an io::Error
WakerNewOutcomes == {"ok", "err"}
\* Waker::wake() may fail with an io::Error
WakeOutcomes == {"ok", "err"}

\* ------------------------------------------------------------- Init
\* channel() or sync_channel(bound): one sender handle, an empty queue, an
\* empty slot.
Init ==
    /\ bound \in 0..MaxBound
    /\ queue = <<>>
    /\ rxAlive = TRUE
    /\ hstate = [h \in Handles |-> IF h = 1 THEN "alive" ELSE "unborn"]
    /\ pc = [h \in Handles |-> "idle"]
    /\ cur = [h \in Handles |-> NoVal]
    /\ tsend = [h \in Handles |-> FALSE]
    /\ nsent = 0
    /\ waker = None
    /\ fresh = None
    /\ seen = [h \in Handles |-> None]
    /\ rxpc = "idle"
    /\ ready = {}
    /\ received = <<>>
    /\ okSent = {}
    /\ last = NoEv


\* ------------------------------------------------------------- senders
\* (mutant: the io::Error of the wake is returned)
ResultPropagated(o) == IF o = "err" THEN "IoErr" ELSE "Ok"
\* What send/try_send returns once the enqueue has succeeded, given the
\* outcome of the wake ("none": the slot was empty): `let _ = waker.wake()`
\* drops the io::Result, and the function ends with Ok(()).
ResultAfterWake(o) == "Ok"


\* (mutant: the send triggers a Waker of another token)
WakeOther(s) == IF s = 1 THEN 2 ELSE 1
\* The token whose Waker a send triggers, given the slot it finds under the
\* lock.
WakeTarget(s) == s

\* (mutant: the sender does not notice that the receiver is gone)
SendFailureKeepsSending(isTry) ==
    IF isTry /\ ~HasSpace THEN "Full" ELSE "none"
\* The failure of tx.send / tx.try_send, returned by `?` before the slot is
\* looked at: the receiver is gone, or (try_send) the buffer is full.
SendFailure(isTry) ==
    IF ~rxAlive THEN "Disconnected"
    ELSE IF isTry /\ ~HasSpace THEN "Full"
    ELSE "none"

\* (mutant: a call that failed goes on to the slot)
FailureFallsThrough == "enqueued"
\* Where the thread is after tx.send / tx.try_send failed: `?` returns
AfterFailure == "idle"

\* The call fails: it returns the error with the value, and nothing else
\* happens.
FailSend(op, h, v, err) ==
    /\ last' = Ev(op, h, v, err, "none", None, {})
    /\ pc' = [pc EXCEPT ![h] = AfterFailure]
    /\ cur' = [cur EXCEPT ![h] = NoVal]
    /\ tsend' = [tsend EXCEPT ![h] = FALSE]
    /\ UNCHANGED <<bound, queue, rxAlive, hstate, okSent, received>>
    /\ UNCHANGED <<waker, fresh, seen, rxpc, ready>>

\* tx.send(t)? / tx.try_send(t)? succeeded: the value is in the queue and the
\* thread goes on to the slot.
DoEnqueue(h, v, isTry) ==
    /\ queue' = Enqueue(queue, v)
    /\ pc' = [pc EXCEPT ![h] = "enqueued"]
    /\ cur' = [cur EXCEPT ![h] = v]
    /\ tsend' = [tsend EXCEPT ![h] = isTry]
    /\ UNCHANGED <<bound, rxAlive, hstate, okSent, received>>
    /\ last' = NoEv
    /\ UNCHANGED <<waker, fresh, seen, rxpc, ready>>

\* Sender::send, line 96: mpsc::Sender::send never blocks.
Send(h) ==
    /\ bound = 0 /\ Alive(h) /\ pc[h] = "idle" /\ nsent < MaxSends
    /\ LET v == Value(h, nsent + 1) IN
       IF SendFailure(FALSE) # "none"
       THEN FailSend("send", h, v, SendFailure(FALSE)) /\ nsent' = nsent + 1
       ELSE DoEnqueue(h, v, FALSE) /\ nsent' = nsent + 1

\* SyncSender::send, line 125: mpsc::SyncSender::send returns at once when
\* the receiver is gone or the buffer has room, and suspends the thread
\* otherwise.
SyncSend(h) ==
    /\ bound > 0 /\ Alive(h) /\ pc[h] = "idle" /\ nsent < MaxSends
    /\ LET v == Value(h, nsent + 1) IN
       IF SendFailure(FALSE) # "none"
       THEN FailSend("send", h, v, SendFailure(FALSE)) /\ nsent' = nsent + 1
       ELSE IF HasSpace
       THEN DoEnqueue(h, v, FALSE) /\ nsent' = nsent + 1
       ELSE /\ pc' = [pc EXCEPT ![h] = "blocked"]
            /\ cur' = [cur EXCEPT ![h] = v]
            /\ nsent' = nsent + 1
            /\ UNCHANGED <<bound, queue, rxAlive, hstate, tsend, okSent,
                           received>>
            /\ last' = NoEv
            /\ UNCHANGED <<waker, fresh, seen, rxpc, ready>>

\* (mutant: a suspended sender is not woken when the receiver is dropped)
ResumeOnSpaceOnly == HasSpace
\* mpsc::SyncSender::send wakes a suspended sender when room was made or
\* the receiver was dropped
CanResume == ~rxAlive \/ HasSpace

\* The suspended SyncSender::send resumes: room was made or the receiver was
\* dropped.
SyncSendResume(h) ==
    /\ pc[h] = "blocked"
    /\ CanResume
    /\ IF SendFailure(FALSE) # "none"
       THEN FailSend("send", h, cur[h], SendFailure(FALSE))
            /\ UNCHANGED nsent
       ELSE DoEnqueue(h, cur[h], FALSE) /\ UNCHANGED nsent


\* SyncSender::try_send, line 140: mpsc::SyncSender::try_send never blocks.
TrySend(h) ==
    /\ bound > 0 /\ Alive(h) /\ pc[h] = "idle" /\ nsent < MaxSends
    /\ nsent' = nsent + 1
    /\ LET v == Value(h, nsent + 1) IN
       IF SendFailure(TRUE) # "none"
       THEN FailSend("try_send", h, v, SendFailure(TRUE))
       ELSE DoEnqueue(h, v, TRUE)

\* (mutant: the sender takes the Waker out of the slot)
SlotTaken(s) == None
\* The slot a send leaves: `&mut *guard` borrows the Waker and leaves it
SlotAfterWake(s) == s

\* `if let Some(waker) = &mut *self.waker.lock().unwrap()`, lines 98, 127,
\* 142: after its value was enqueued the sender acquires the mutex of the
\* slot and matches the content.
SendLock(h) ==
    /\ pc[h] = "enqueued"
    /\ LockFree
    /\ pc' = [pc EXCEPT ![h] = "locked"]
    /\ seen' = [seen EXCEPT ![h] = SlotOf(h)]
    /\ UNCHANGED <<bound, queue, rxAlive, hstate, cur, tsend, nsent, waker,
                   fresh, rxpc, ready, received, okSent>>
    /\ last' = NoEv

\* { let _ = waker.wake(); } Ok(()), lines 99-102: the sender triggers the
\* Waker it found, if any, drops the guard and returns.
SendWake(h) ==
    /\ pc[h] = "locked"
    /\ LET op == IF tsend[h] THEN "try_send" ELSE "send" IN
       IF seen[h] # None
       THEN \E o \in WakeOutcomes :
              /\ ready' = IF o = "ok" THEN ready \cup {WakeTarget(seen[h])}
                          ELSE ready
              /\ last' = Ev(op, h, cur[h], ResultAfterWake(o), o,
                            WakeTarget(seen[h]), {})
              /\ okSent' = IF ResultAfterWake(o) = "Ok"
                           THEN okSent \cup {cur[h]} ELSE okSent
       ELSE /\ ready' = ready
            /\ last' = Ev(op, h, cur[h], ResultAfterWake("none"), "none", None, {})
            /\ okSent' = okSent \cup {cur[h]}
    /\ pc' = [pc EXCEPT ![h] = "idle"]
    /\ cur' = [cur EXCEPT ![h] = NoVal]
    /\ tsend' = [tsend EXCEPT ![h] = FALSE]
    /\ seen' = [seen EXCEPT ![h] = None]
    /\ waker' = SlotAfterWake(waker)
    /\ UNCHANGED <<bound, queue, rxAlive, hstate, nsent, fresh, rxpc,
                   received>>

\* Clone for Sender / SyncSender, lines 106-110 and 150-154: a new handle on
\* the same queue and the same slot.
Clone(h) ==
    /\ Alive(h) /\ pc[h] = "idle"
    /\ \E n \in Handles :
         /\ hstate[n] = "unborn"
         /\ \A m \in Handles : hstate[m] = "unborn" => n <= m
         /\ hstate' = [hstate EXCEPT ![n] = "alive"]
    /\ UNCHANGED <<bound, queue, rxAlive, pc, cur, tsend, nsent, waker, fresh, seen,
                   rxpc, ready, received, okSent>>
    /\ last' = NoEv

\* A sender handle is dropped (the structs of lines 84-87 and 113-116 own
\* the mpsc sender: dropping the handle drops it).
DropSender(h) ==
    /\ Alive(h) /\ pc[h] = "idle"
    /\ hstate' = [hstate EXCEPT ![h] = "dropped"]
    /\ UNCHANGED <<bound, queue, rxAlive, pc, cur, tsend, nsent, waker, fresh, seen,
                   rxpc, ready, received, okSent>>
    /\ last' = NoEv

\* ------------------------------------------------------------- receiver
\* The value try_recv takes from the queue: the oldest
RecvPick(q) == Head(q)
\* The queue try_recv leaves
RecvRest(q) == Tail(q)

\* Receiver::try_recv, lines 40-42
TryRecv ==
    /\ rxAlive /\ rxpc = "idle"
    /\ IF TryRecvResult = "Ok"
       THEN /\ received' = Append(received, RecvPick(queue))
            /\ queue' = RecvRest(queue)
            /\ last' = Ev("try_recv", 0, RecvPick(queue), "Ok", "none", None, {})
       ELSE /\ last' = Ev("try_recv", 0, NoVal, TryRecvResult, "none", None, {})
            /\ UNCHANGED <<queue, received>>
    /\ UNCHANGED <<bound, rxAlive, hstate, pc, cur, tsend, nsent, waker, fresh, seen,
                   rxpc, ready, okSent>>

\* The Receiver is dropped (struct of lines 33-36: it owns the mpsc receiver)
DropReceiver ==
    /\ rxAlive /\ rxpc = "idle"
    /\ rxAlive' = FALSE
    /\ UNCHANGED <<bound, queue, hstate, pc, cur, tsend, nsent, waker, fresh, seen,
                   rxpc, ready, received, okSent>>
    /\ last' = NoEv

\* (mutant: register replaces the Waker of the slot)
RegisterOverwrites(s, t) == t
\* (mutant: reregister keeps the Waker of the slot)
ReregisterKeeps(s, t) == IF s = None THEN t ELSE s
\* (mutant: deregister leaves the Waker in the slot)
DeregisterKeeps(s) == s
\* The slot register leaves, given the slot it finds and the token
RegisterSlot(s, t) == IF s = None THEN t ELSE s
\* The slot reregister leaves
ReregisterSlot(s, t) == t
\* The slot deregister leaves
DeregisterSlot(s) == None
\* (mutant: the slot is emptied before Waker::new is tried)
FailedSlotCleared(s) == None
\* The slot a registration call leaves when Waker::new fails: `?` returns
\* before the assignment
FailedSlot(s) == s

\* (mutant: a registration call discards the values that wait in the queue)
QueueDrained(q) == <<>>
\* The queue a registration call leaves: register, reregister and deregister
\* work on self.waker only, never on self.rx
QueueAfterRegistration(q) == q

\* A registration call returns, releasing the mutex of the slot.
RxReturn(op, t, res, s) ==
    /\ last' = Ev(op, 0, NoVal, res, "none", t, {})
    /\ waker' = s
    /\ fresh' = None
    /\ rxpc' = "idle"
    /\ queue' = QueueAfterRegistration(queue)
    /\ UNCHANGED <<bound, rxAlive, hstate, pc, cur, tsend, nsent,
                   seen, ready, received, okSent>>

\* (mutant: only a registration for readability installs a Waker)
InterestReadableOnly(i) == i = "READABLE"
\* Whether a registration call looks at the slot, given its interest: the
\* parameter is declared `_: mio::Interest` (lines 50, 65) and never read.
InterestAccepted(i) == TRUE

\* Receiver::register, lines 46-59: lock; if the slot is empty, create a
\* Waker for the token and store it; Ok(()).
Register(t, i) ==
    /\ rxAlive /\ rxpc = "idle"
    /\ LockFree
    /\ IF ~InterestAccepted(i)
       THEN RxReturn("register", t, "Ok", waker)
       ELSE IF waker = None
       THEN \E o \in WakerNewOutcomes :
              IF o = "ok"
              THEN RxReturn("register", t, "Ok", RegisterSlot(waker, t))
              ELSE RxReturn("register", t, "IoErr", FailedSlot(waker))
       ELSE RxReturn("register", t, "Ok", RegisterSlot(waker, t))

\* Receiver::reregister, lines 61-72, up to Waker::new(registry, token)? of
\* line 69: lock, create the Waker.  The new Waker exists before the
\* assignment drops the one in the slot.
ReregisterNew(t, i) ==
    /\ rxAlive /\ rxpc = "idle"
    /\ LockFree
    /\ IF InterestAccepted(i)
       THEN \E o \in WakerNewOutcomes :
              IF o = "ok"
              THEN /\ fresh' = t
                   /\ rxpc' = "reregister"
                   /\ UNCHANGED <<bound, queue, rxAlive, hstate, pc, cur,
                                  tsend, nsent, waker, seen, ready, received,
                                  okSent>>
                   /\ last' = NoEv
              ELSE RxReturn("reregister", t, "IoErr", FailedSlot(waker))
       ELSE RxReturn("reregister", t, "Ok", waker)

\* The assignment of line 69 and Ok(()): the new Waker replaces what the slot
\* held.
ReregisterStore ==
    /\ rxpc = "reregister"
    /\ RxReturn("reregister", fresh, "Ok", ReregisterSlot(waker, fresh))

\* Receiver::deregister, lines 74-80
Deregister ==
    /\ rxAlive /\ rxpc = "idle"
    /\ LockFree
    /\ RxReturn("deregister", None, "Ok", DeregisterSlot(waker))

\* ------------------------------------------------------------- poller
\* poll.poll(&mut events, None), src/src/lib.rs line 28: the consumer thread
\* waits in the poller, with no timeout
PollEnter ==
    /\ rxAlive /\ rxpc = "idle"
    /\ rxpc' = "polling"
    /\ UNCHANGED <<bound, queue, rxAlive, hstate, pc, cur, tsend, nsent, waker,
                   fresh, seen, ready, received, okSent>>
    /\ last' = NoEv

\* The wait returns once a Waker was triggered, reporting the tokens
PollReturn ==
    /\ rxpc = "polling"
    /\ ready # {}
    /\ ready' = {}
    /\ rxpc' = "idle"
    /\ last' = Ev("poll", 0, NoVal, "Ok", "none", None, ready)
    /\ UNCHANGED <<bound, queue, rxAlive, hstate, pc, cur, tsend, nsent, waker,
                   fresh, seen, received, okSent>>

\* ------------------------------------------------------------- Next
SenderStep(h) ==
    \/ Send(h)
    \/ SyncSend(h)
    \/ SyncSendResume(h)
    \/ TrySend(h)
    \/ SendLock(h)
    \/ SendWake(h)
    \/ Clone(h)
    \/ DropSender(h)

Next ==
    \/ \E h \in Handles : SenderStep(h)
    \/ TryRecv
    \/ DropReceiver
    \/ \E t \in Tokens, i \in Interests : Register(t, i)
    \/ \E t \in Tokens, i \in Interests : ReregisterNew(t, i)
    \/ ReregisterStore
    \/ Deregister
    \/ PollEnter
    \/ PollReturn

Spec == Init /\ [][Next]_vars

\* The crate's public interface (src/src/lib.rs line 41) is channel, Sender
\* and Receiver: the unbounded channel.
InitChannel == Init /\ bound = 0

NextChannel ==
    \/ \E h \in Handles : Send(h)
    \/ \E h \in Handles : SendLock(h)
    \/ \E h \in Handles : SendWake(h)
    \/ \E h \in Handles : Clone(h)
    \/ \E h \in Handles : DropSender(h)
    \/ TryRecv
    \/ DropReceiver
    \/ \E t \in Tokens, i \in Interests : Register(t, i)
    \/ \E t \in Tokens, i \in Interests : ReregisterNew(t, i)
    \/ ReregisterStore
    \/ Deregister
    \/ PollEnter
    \/ PollReturn

\* Threads are scheduled by the operating system: a thread that can take its
\* next step (acquire the free mutex, run the guarded block, return from the
\* poller that has an event) eventually takes it.  Calls are started by the
\* application, which may stop making them.
Fairness ==
    /\ \A h \in Handles : WF_vars(SendLock(h)) /\ WF_vars(SendWake(h))
    /\ WF_vars(ReregisterStore)
    /\ WF_vars(PollReturn)

LiveSpec == InitChannel /\ [][NextChannel]_vars /\ Fairness

\* The bounded channel, sync_channel(bound)
InitSync == Init /\ bound > 0

NextSync ==
    \/ \E h \in Handles : SyncSend(h)
    \/ \E h \in Handles : SyncSendResume(h)
    \/ \E h \in Handles : TrySend(h)
    \/ \E h \in Handles : SendLock(h)
    \/ \E h \in Handles : SendWake(h)
    \/ \E h \in Handles : Clone(h)
    \/ \E h \in Handles : DropSender(h)
    \/ TryRecv
    \/ DropReceiver
    \/ \E t \in Tokens, i \in Interests : Register(t, i)
    \/ \E t \in Tokens, i \in Interests : ReregisterNew(t, i)
    \/ ReregisterStore
    \/ Deregister

\* A suspended sender that can resume is woken by mpsc (the consumer's
\* try_recv or drop notifies it) and eventually scheduled.
FairnessSync == \A h \in Handles : WF_vars(SyncSendResume(h))

SyncLiveSpec == InitSync /\ [][NextSync]_vars /\ FairnessSync

\* ------------------------------------------------------------- claims
Range(q) == {q[i] : i \in 1..Len(q)}
\* Every value that entered the queue, in the order it entered
Delivered == received \o queue
\* The values of the calls whose enqueue succeeded and that have not returned
InFlight == {cur[h] : h \in {g \in Handles : pc[g] \in {"enqueued", "locked"}}}

\* C1: whatever the interleaving of send/try_send calls of the sender clones,
\* the values try_recv returns are those whose send returned Ok: no value is
\* received twice, a value whose send returned Ok is received or still in
\* the queue (so that once the queue is drained and no call is in progress,
\* the received values are exactly the values sent with success), nothing is
\* received that was not sent, and the values of one handle are received in
\* the order the handle sent them.
C1_Delivery ==
    /\ \A i, j \in 1..Len(Delivered) : i # j => Delivered[i] # Delivered[j]
    /\ rxAlive => okSent \subseteq Range(Delivered)
    /\ Range(Delivered) \subseteq okSent \cup InFlight
    /\ (rxAlive /\ queue = <<>> /\ InFlight = {}) => Range(received) = okSent
    /\ \A i, j \in 1..Len(Delivered) :
         (i < j /\ Delivered[i][1] = Delivered[j][1])
            => Delivered[i][2] < Delivered[j][2]

\* C1 witness: two handles have each sent a value with success and both
\* values were received.
C1_Witness ==
    /\ Len(received) = 2 /\ queue = <<>> /\ InFlight = {}
    /\ Range(received) = okSent
    /\ \E i, j \in 1..Len(received) : received[i][1] # received[j][1]


\* C2 (as stated): the consumer waits in the poller, the slot holds a Waker
\* for token t (and no wake of an earlier registration under another token is
\* pending), and the send of value v through handle h has enqueued v at the
\* head of the queue.  Then the wait returns reporting t, and try_recv then
\* returns v.
C2_Sent(h, t, v) ==
    /\ rxpc = "polling" /\ waker = t /\ ready \subseteq {t}
    /\ pc[h] = "enqueued" /\ cur[h] = v
    /\ queue # <<>> /\ Head(queue) = v

C2_Woken(t, v) ==
    /\ last.op = "poll" /\ t \in last.evs
    /\ TryRecvResult = "Ok" /\ RecvPick(queue) = v

C2_WakeFailed(h, v) ==
    /\ last.h = h /\ last.v = v /\ last.wake = "err"

WakeStep == last'.wake # "none"

\* C3 (as stated): the wake of a send never happens strictly after its value
\* has become retrievable: when the Waker is triggered, the value is not yet
\* in the queue.
C3_WakeNotAfterValue ==
    [][WakeStep => last'.v \notin Range(queue) \cup Range(received)]_vars

\* C3 (amended): the wake of a send happens after its value has become
\* retrievable: when the Waker is triggered, the value is in the queue or
\* was received already.
C3_WakeAfterValue ==
    [][WakeStep => last'.v \in Range(queue) \cup Range(received)]_vars

\* C3 witness: a send has triggered the Waker of the slot and its value is
\* in the queue.
C3_Witness ==
    /\ last.op = "send" /\ last.wake = "ok" /\ last.tok = waker
    /\ last.v \in Range(queue)


\* A send that triggers a Waker triggers the one the slot holds
WakesSlot == WakeStep => (waker # None /\ last'.tok = waker)

\* C4: register is first-wins.  When the slot holds a Waker, register
\* returns Ok, leaves the slot as it is and creates no Waker; a send wakes
\* the token of the slot, so the token of the first registration until a
\* reregister or a deregister changes the slot.
C4_RegisterFirstWins ==
    [][/\ (last'.op = "register" /\ waker # None)
            => (last'.res = "Ok" /\ waker' = waker /\ fresh' = fresh)
       /\ (waker # None /\ waker' # waker)
            => last'.op \in {"reregister", "deregister"}
       /\ WakesSlot]_vars

\* C4 witness: register was called with another token than the one of the
\* slot, and returned.
C4_Witness ==
    /\ last.op = "register" /\ last.res = "Ok"
    /\ waker # None /\ last.tok # waker

\* C5: a reregister that succeeds leaves in the slot a Waker of its token,
\* whatever the slot held; a send that looks at the slot afterwards wakes
\* that token.
C5_ReregisterReplaces ==
    [][/\ (last'.op = "reregister" /\ last'.res = "Ok")
            => (waker' = last'.tok /\ waker' \in Tokens /\ fresh' = None)
       /\ WakeStep => last'.tok = waker]_vars

\* C5 witness: reregister has replaced the Waker of a token that was woken
\* before by a Waker of another token.
C5_Witness ==
    /\ last.op = "reregister" /\ last.res = "Ok"
    /\ waker \in Tokens /\ ready # {} /\ waker \notin ready

\* C6: deregister returns Ok and leaves the slot empty; a send or try_send
\* that finds the slot empty has enqueued its value, returns Ok and triggers
\* no Waker.
C6_DeregisterClears ==
    [][/\ last'.op = "deregister" => (last'.res = "Ok" /\ waker' = None)
       /\ \A h \in Handles :
            (pc[h] = "locked" /\ pc'[h] = "idle" /\ waker = None)
               => /\ last'.res = "Ok" /\ last'.wake = "none"
                  /\ last'.v = cur[h]
                  /\ cur[h] \in Range(queue) \cup Range(received)
                  /\ ready' = ready]_vars

\* C6 witness: a send returned Ok without a wake, the slot being empty after
\* a registration under which a wake had been triggered.
C6_Witness ==
    /\ last.op \in {"send", "try_send"} /\ last.res = "Ok"
    /\ last.wake = "none" /\ waker = None /\ ready # {}
    /\ last.v \in Range(queue)

\* C7: a failure of the wake never changes the outcome of send or try_send:
\* once the enqueue has succeeded the call returns Ok and the value is in the
\* queue (or was received), whether the wake succeeded or failed.
C7_WakeFailureSwallowed ==
    [][\A h \in Handles :
         (pc[h] = "locked" /\ pc'[h] = "idle")
            => /\ last'.res = "Ok" /\ last'.v = cur[h]
               /\ cur[h] \in okSent'
               /\ queue' = queue
               /\ cur[h] \in Range(queue) \cup Range(received)]_vars

\* C7 witness: the wake of a try_send failed, the call returned Ok and its
\* value is in the queue.
C7_Witness ==
    /\ last.op = "try_send" /\ last.wake = "err" /\ last.res = "Ok"
    /\ last.v \in Range(queue)


\* The step is a send or try_send call that starts (and, unless the call
\* suspends or goes on to the slot, returns)
CallStep == nsent' = nsent + 1

\* C8: once the Receiver is dropped, every send and try_send call fails with
\* Disconnected and gets its value back: the call leaves the queue as it is,
\* the caller is idle again, and no value of such a call is ever counted as
\* sent; a send suspended on a full queue fails the same way.
C8_DisconnectedSend ==
    [][~rxAlive =>
         /\ queue' = queue
         /\ okSent' \subseteq okSent \cup InFlight
         /\ CallStep =>
              /\ last'.op \in {"send", "try_send"}
              /\ last'.res = "Disconnected"
              /\ last'.v = Value(last'.h, nsent')
              /\ pc' = pc
         /\ \A h \in Handles :
              (pc[h] = "blocked" /\ pc'[h] # "blocked")
                 => (last'.res = "Disconnected" /\ last'.v = cur[h]
                     /\ pc'[h] = "idle")]_vars

\* C8 witness: a try_send made after the Receiver was dropped returned
\* Disconnected, and its value is not in the queue.
C8_Witness ==
    /\ ~rxAlive /\ last.op = "try_send" /\ last.res = "Disconnected"
    /\ last.v = Value(last.h, nsent) /\ last.v \notin Range(queue)

C10_TryRecv ==
    [][last'.op = "try_recv" =>
         /\ queue # <<>>
              => /\ last'.res = "Ok" /\ last'.v = queue[1]
                 /\ queue' = SubSeq(queue, 2, Len(queue))
                 /\ received' = Append(received, queue[1])
         /\ last'.res = "Empty"
              => (queue = <<>> /\ \E h \in Handles : hstate[h] = "alive")
         /\ last'.res = "Disconnected"
              => (queue = <<>> /\ \A h \in Handles : hstate[h] # "alive")
         /\ last'.res \in {"Ok", "Empty", "Disconnected"}
         /\ queue = <<>> => (queue' = queue /\ received' = received)]_vars

\* C10 witness: try_recv returned a value after every sender handle had been
\* dropped.
C10_Witness ==
    /\ last.op = "try_recv" /\ last.res = "Ok"
    /\ \A h \in Handles : hstate[h] # "alive"
    /\ Len(received) >= 2

\* Handle h ends its call in this step (the wake step of send / try_send)
Returns(h) == pc[h] = "locked" /\ pc'[h] = "idle"

\* C11: every sender handle, the original and its clones, created before or
\* after the registration calls, works on the one queue and the one slot of
\* the Receiver: the enqueue of any handle appends to the queue try_recv
\* reads, and a call that has enqueued finds in the slot what the last
\* registration call left there: it triggers a Waker exactly when the slot
\* holds one, and then the Waker of the token the slot holds at that moment.
C11_ClonesShareSlot ==
    [][\A h \in Handles :
         /\ (pc[h] \in {"idle", "blocked"} /\ pc'[h] = "enqueued")
               => queue' = Append(queue, cur'[h])
         /\ Returns(h)
               => /\ (waker = None) <=> (last'.wake = "none")
                  /\ waker # None => last'.tok = waker
                  /\ last'.wake = "ok" => ready' = ready \cup {waker}
                  /\ last'.wake # "ok" => ready' = ready]_vars

\* C11 witness: the clone (handle 2) made both calls of the run; the first
\* woke one token and the second the other, which the slot holds now: the
\* registration was changed after the clone was created, and the clone saw
\* it.
C11_Witness ==
    /\ last.op \in {"send", "try_send"} /\ last.h = 2 /\ last.wake = "ok"
    /\ last.v = Value(2, 2) /\ Value(2, 1) \in okSent
    /\ last.tok = waker /\ ready = Tokens

\* C12: the interest passed to register / reregister changes nothing.  From
\* every reachable state, a step is a step of the call with token t and
\* interest i exactly when it is a step of the call with token t and interest
\* j: the slot it leaves, the result it returns and the rest of the state are
\* the same.  Two runs of the same operations that differ only in the
\* interests hence go through the same states, and their sends trigger the
\* same wakes.  (The steps of these calls are those that return from
\* register or reregister, or that leave the consumer inside reregister.)
C12_InterestIgnored ==
    [][/\ last'.op = "register"
            => ((\E i \in Interests : Register(last'.tok, i))
                  => \A j \in Interests : Register(last'.tok, j))
       /\ (last'.op = "reregister" \/ rxpc' = "reregister")
            => \A t \in Tokens :
                 (\E i \in Interests : ReregisterNew(t, i))
                    => \A j \in Interests : ReregisterNew(t, j)]_vars

\* C12 witness: a register call has installed the Waker of its token while a
\* send was on its way to the slot.
C12_Witness ==
    /\ last.op = "register" /\ last.res = "Ok" /\ waker = last.tok
    /\ \E h \in Handles : pc[h] = "enqueued"

\* The number of Wakers of the channel that exist: the one the slot holds and
\* the one reregister has created and not yet stored
LiveWakers ==
    (IF waker # None THEN 1 ELSE 0) + (IF fresh # None THEN 1 ELSE 0)

\* C13: at every instant at most one Waker of the channel is alive: the
\* Waker reregister creates never exists together with the one the slot
\* held.
C13_OneLiveWaker == LiveWakers <= 1

\* The two-state machine of the slot: Unregistered (None) / Registered(t)
SlotMachineInit == waker = None
SlotMachineRegister(t)   == waker' = IF waker = None THEN t ELSE waker
SlotMachineReregister(t) == waker' = t
SlotMachineDeregister    == waker' = None

\* C14: the slot refines that machine.  It starts Unregistered; a register
\* that succeeds takes Unregistered to Registered(token) and leaves
\* Registered(_) as it is, a reregister that succeeds takes any state to
\* Registered(new token), a deregister takes any state to Unregistered, and
\* no other step (send, try_send, try_recv, clone, the drop of a handle, the
\* poller) changes the slot.
C14_SlotRefinement ==
    /\ SlotMachineInit
    /\ [][/\ (last'.op = "register" /\ last'.res = "Ok")
               => SlotMachineRegister(last'.tok)
          /\ (last'.op = "reregister" /\ last'.res = "Ok")
               => SlotMachineReregister(last'.tok)
          /\ last'.op = "deregister" => SlotMachineDeregister
          /\ ~(last'.op \in {"register", "reregister", "deregister"}
                 /\ last'.res = "Ok")
               => waker' = waker]_vars

\* C14 witness: the slot is Unregistered again after it was Registered with
\* one token and with the other, and a send has woken each.
C14_Witness ==
    /\ last.op = "deregister" /\ waker = None /\ ready = Tokens

\* The step belongs to a registration call: the call returns, or reregister
\* has created its Waker and is about to store it
RegistrationStep ==
    \/ last'.op \in {"register", "reregister", "deregister"}
    \/ rxpc = "idle" /\ rxpc' = "reregister"

\* C15: register, reregister and deregister leave the channel as it is: the
\* values in the queue and their order, the values already received, whether
\* the Receiver and the sender handles are alive, and every sender call in
\* progress, the suspended ones included.  The values enqueued before a
\* deregister are therefore the ones later try_recv calls return, oldest
\* first.
C15_RegistrationFrame ==
    [][RegistrationStep =>
         /\ queue' = queue /\ received' = received
         /\ rxAlive' = rxAlive /\ hstate' = hstate
         /\ pc' = pc /\ cur' = cur /\ tsend' = tsend
         /\ okSent' = okSent /\ ready' = ready]_vars

\* C15 witness: deregister returned while a value was in the full queue of a
\* bounded channel and a sender was suspended on it; the slot had held a
\* Waker, which the first send triggered.
C15_Witness ==
    /\ last.op = "deregister" /\ waker = None /\ ready # {}
    /\ bound = 1 /\ queue = <<Value(1, 1)>>
    /\ \E h \in Handles : pc[h] = "blocked"

\* The threads that hold the mutex of the slot (0: the consumer)
LockHolders ==
    {h \in Handles : HoldsLock(h)}
        \cup (IF rxpc = "reregister" THEN {0} ELSE {})

\* C16: the mutex of the slot is never held across the suspension of the
\* bounded send.  While any number of senders are suspended, none of them
\* holds the mutex; the mutex has at most one holder, and the holder is in a
\* guarded block that it can leave at once (the wake step of a sender, the
\* assignment of reregister); when nobody holds it, every registration call
\* of the consumer and the lock step of every sender that has enqueued can
\* be taken.  Queue capacity and the mutex never wait for each other.
C16_NoLockWhileBlocked ==
    (\E b \in Handles : pc[b] = "blocked") =>
        /\ \A h \in Handles : pc[h] = "blocked" => h \notin LockHolders
        /\ Cardinality(LockHolders) <= 1
        /\ \A h \in LockHolders \ {0} : ENABLED SendWake(h)
        /\ 0 \in LockHolders => ENABLED ReregisterStore
        /\ (LockHolders = {} /\ rxAlive /\ rxpc = "idle")
              => /\ ENABLED Deregister
                 /\ \A t \in Tokens : \A i \in Interests :
                      ENABLED Register(t, i) /\ ENABLED ReregisterNew(t, i)
        /\ \A h \in Handles :
              (LockHolders = {} /\ pc[h] = "enqueued") => ENABLED SendLock(h)

\* C16 witness: a sender is suspended on the full queue while the other
\* sender holds the mutex, in its wake step.
C16_Witness ==
    /\ \E b \in Handles : pc[b] = "blocked"
    /\ \E h \in Handles : pc[h] = "locked" /\ LockHolders = {h}

\* Handle h is suspended in the bounded send
Suspended(h) == pc[h] = "blocked"

\* The send of handle h returned Disconnected with its value (the values of
\* handle h are the pairs <<h, n>>)
ReturnedDisconnected(h) ==
    /\ last.op = "send" /\ last.h = h /\ last.res = "Disconnected"
    /\ last.v[1] = h

\* C17, the steps: a call is suspended only when it is the blocking send of a
\* bounded channel that finds the Receiver alive and the queue full; try_send
\* and the unbounded send enqueue or fail in the step that calls them, and
\* try_recv returns in its step.  A suspended send leaves the suspension
\* only with room in the queue (its value is enqueued and the call goes on to
\* return Ok) or with the Receiver dropped (it returns Disconnected with its
\* value, the queue unchanged).
C17_Steps ==
    \A h \in Handles :
      /\ (~Suspended(h) /\ Suspended(h)')
            => /\ SyncSend(h) /\ ~TrySend(h) /\ ~Send(h)
               /\ bound > 0 /\ rxAlive /\ Len(queue) = bound
      /\ (Suspended(h) /\ ~Suspended(h)')
            => IF rxAlive
               THEN /\ Len(queue) < bound
                    /\ queue' = Append(queue, cur[h])
                    /\ pc'[h] = "enqueued" /\ cur'[h] = cur[h]
               ELSE /\ last'.op = "send" /\ last'.res = "Disconnected"
                    /\ last'.v = cur[h] /\ queue' = queue
                    /\ pc'[h] = "idle"
      /\ last'.op = "try_recv" => rxpc' = "idle"

C18_WakeOnlyAfterOwnEnqueue ==
    [][/\ WakeStep
            => /\ last'.op \in {"send", "try_send"} /\ last'.res = "Ok"
               /\ \E h \in Handles :
                    /\ Returns(h) /\ last'.h = h /\ last'.v = cur[h]
                    /\ cur[h][1] = h
               /\ last'.v \in Range(Delivered)
               /\ last'.v \notin okSent /\ last'.v \in okSent'
       /\ ~(ready' \subseteq ready) => last'.wake = "ok"
       /\ last'.res \in {"Disconnected", "Full"}
            => /\ last'.wake = "none" /\ ready' = ready
               /\ queue' = queue /\ waker' = waker /\ fresh' = fresh
               /\ last'.v \notin Range(Delivered')
       /\ (RegistrationStep \/ last'.op = "try_recv")
            => (last'.wake = "none" /\ ready' = ready)]_vars

\* C18 witness: a send failed with Disconnected while the slot held a Waker,
\* and no wake is pending.
C18_Witness ==
    /\ last.op = "send" /\ last.res = "Disconnected"
    /\ waker # None /\ ready = {} /\ last.v \notin Range(queue)

\* C19: when Waker::new fails, register and reregister return the io::Error
\* and the slot is as it was: only a register on an empty slot or a
\* reregister can fail, no Waker is left over, a failed register leaves the
\* slot empty and a failed reregister leaves the Waker the slot held; the
\* sends that follow trigger the Waker of the slot, the old token.
C19_FailedRegistrationKeepsSlot ==
    [][/\ last'.res = "IoErr"
            => /\ last'.op \in {"register", "reregister"}
               /\ waker' = waker /\ fresh' = None /\ fresh = None
               /\ last'.op = "register" => waker = None
               /\ rxpc' = "idle" /\ ready' = ready
       /\ \A h \in Handles :
            (Returns(h) /\ waker # None)
               => (last'.wake # "none" /\ last'.tok = waker)]_vars

\* C19 witness: a reregister with another token failed on a slot that holds
\* a Waker, a send being on its way to the slot.
C19_Witness ==
    /\ last.op = "reregister" /\ last.res = "IoErr"
    /\ waker # None /\ last.tok # waker
    /\ \E h \in Handles : pc[h] = "enqueued"

\* C20: the look at the slot and the wake of a send are one step with respect
\* to the registration calls.  No registration call is inside its guarded
\* block while a sender is between its look at the slot and its wake, the
\* Waker a sender has found is the one the slot still holds, and so every
\* wake is on the token the slot holds when it is triggered: once deregister
\* has returned no send triggers a Waker, and once reregister has returned
\* every send triggers the Waker of the new token, also a send whose value was
\* enqueued before the call.
C20_WakeAtomicWithSlot ==
    [][/\ \A h \in Handles :
            pc[h] = "locked"
               => /\ seen[h] = waker
                  /\ rxpc # "reregister"
                  /\ ~RegistrationStep
       /\ WakeStep => (waker # None /\ last'.tok = waker)
       /\ \A h \in Handles :
            (Returns(h) /\ waker = None) => last'.wake = "none"]_vars

\* C20 witness: the send of handle 1 (call 1) enqueued its value first and
\* triggered its Waker last.  In between the send of handle 2 (call 2) woke
\* one token and a registration call replaced it by the other: the wake of
\* call 1 is on the new token, which the slot holds.
C20_Witness ==
    /\ last.op = "send" /\ last.h = 1 /\ last.v = Value(1, 1)
    /\ last.wake = "ok" /\ last.tok = waker
    /\ Value(2, 2) \in okSent /\ ready = Tokens

=============================================================================
